---- MODULE Spec2Model ----
(***************************************************************************)
(* Model of src/index.js: the per-locale content-size analysis of one      *)
(* Contentful entry (getByteSize, getCharacterCount,                       *)
(* extractPlainTextFromRichText, analyzeContentOverhead and the body of    *)
(* analyzeEntryContentSizes).                                              *)
(*                                                                         *)
(* A JavaScript string is a sequence of UTF-16 code units; one code unit   *)
(* is a one-element token here ("a", "U00E9", ...).  "HI" and "LO" are a   *)
(* high and a low surrogate code unit (U+D83D, U+DE00).                    *)
(***************************************************************************)
EXTENDS Integers, Sequences, FiniteSets, TLC

----------------------------------------------------------------------------
(* Bounds of the model                                                     *)

MaxTextLen == 2
MaxNodes == 3
MaxLocales == 3
MaxFields == 3

----------------------------------------------------------------------------
(* Strings: code units, UTF-8 byte length, code-unit order                 *)

\* The code units that occur in modelled field text.
TextUnits == {"a", "\"", "U00E9", "HI", "LO"}

IsHighSurrogate(c) == c = "HI"

IsLowSurrogate(c) == c = "LO"

\* Bytes of the UTF-8 encoding of one code unit that is not part of a
\* surrogate pair.  A lone surrogate is encoded as U+FFFD (3 bytes).
Utf8Width(c) ==
  CASE c = "U00E9" -> 2
    [] IsHighSurrogate(c) \/ IsLowSurrogate(c) -> 3
    [] OTHER -> 1

\* The bytes code unit i of s adds to the UTF-8 encoding of s: a high
\* surrogate followed by a low one is one code point of 4 bytes, which the
\* high surrogate accounts for.
Utf8BytesAt(s, i) ==
  IF IsHighSurrogate(s[i]) /\ i < Len(s) /\ IsLowSurrogate(s[i + 1]) THEN 4
  ELSE IF IsLowSurrogate(s[i]) /\ i > 1 /\ IsHighSurrogate(s[i - 1]) THEN 0
  ELSE Utf8Width(s[i])

\* The bytes of the code units lo..hi of s (summed by halves).
RECURSIVE ByteLengthBetween(_, _, _)
ByteLengthBetween(s, lo, hi) ==
  IF lo > hi THEN 0
  ELSE IF lo = hi THEN Utf8BytesAt(s, lo)
  ELSE LET mid == (lo + hi) \div 2
       IN ByteLengthBetween(s, lo, mid) + ByteLengthBetween(s, mid + 1, hi)

\* Buffer.byteLength(s, "utf8")
ByteLength(s) == ByteLengthBetween(s, 1, Len(s))

\* UTF-16 code unit values of the letters used in locale codes and field ids.
CodeUnit(c) ==
  CASE c = "-" -> 45
    [] c = "E" -> 69
    [] c = "N" -> 78
    [] c = "a" -> 97
    [] c = "b" -> 98
    [] c = "c" -> 99
    [] c = "d" -> 100
    [] c = "e" -> 101
    [] c = "i" -> 105
    [] c = "l" -> 108
    [] c = "n" -> 110
    [] c = "o" -> 111
    [] c = "r" -> 114
    [] c = "s" -> 115
    [] c = "t" -> 116
    [] c = "u" -> 117
    [] c = "y" -> 121
    [] OTHER -> 0

\* -1, 0, 1: comparison of two strings by code units (the order of < on
\* JavaScript strings).
RECURSIVE CodeUnitCompareFrom(_, _, _)
CodeUnitCompareFrom(s, t, i) ==
  IF i > Len(s) /\ i > Len(t) THEN 0
  ELSE IF i > Len(s) THEN -1
  ELSE IF i > Len(t) THEN 1
  ELSE IF CodeUnit(s[i]) < CodeUnit(t[i]) THEN -1
  ELSE IF CodeUnit(s[i]) > CodeUnit(t[i]) THEN 1
  ELSE CodeUnitCompareFrom(s, t, i + 1)

CodeUnitCompare(s, t) == CodeUnitCompareFrom(s, t, 1)

----------------------------------------------------------------------------
(* JSON.stringify                                                          *)

\* What JSON.stringify writes in a string literal for one code unit that is
\* not half of a well-formed surrogate pair: a lone surrogate becomes a
\* \uXXXX escape, a quote or backslash is escaped.
JsonEscapeUnit(c) ==
  CASE c = "\"" -> <<"\\", "\"">>
    [] c = "\\" -> <<"\\", "\\">>
    [] IsHighSurrogate(c) -> <<"\\", "u", "d", "8", "3", "d">>
    [] IsLowSurrogate(c) -> <<"\\", "u", "d", "e", "0", "0">>
    [] OTHER -> <<c>>

RECURSIVE JsonEscapeFrom(_, _)
JsonEscapeFrom(s, i) ==
  IF i > Len(s) THEN <<>>
  ELSE IF IsHighSurrogate(s[i]) /\ i < Len(s) /\ IsLowSurrogate(s[i + 1])
       THEN <<s[i], s[i + 1]>> \o JsonEscapeFrom(s, i + 2)
       ELSE JsonEscapeUnit(s[i]) \o JsonEscapeFrom(s, i + 1)

\* JSON.stringify of a string
JsonQuote(s) == <<"\"">> \o JsonEscapeFrom(s, 1) \o <<"\"">>

\* The literal "value" / "content" keys with their colon.
ValueKey == <<"\"", "v", "a", "l", "u", "e", "\"", ":">>

ContentKey == <<"\"", "c", "o", "n", "t", "e", "n", "t", "\"", ":">>

\* A rich-text node, an object: vkind says what its `value` is (absent, a
\* string, or a number written in `value` by its digits), ckind what its
\* `content` is (absent, an array of children, or a string).
Node(vkind, value, ckind, content) ==
  [kind |-> "object", vkind |-> vkind, value |-> value, ckind |-> ckind,
   content |-> content]

\* What parsed JSON may hold where a node is expected: null, or a string.
NullChild ==
  [kind |-> "null", vkind |-> "none", value |-> <<>>, ckind |-> "none",
   content |-> <<>>]

StringChild(s) ==
  [kind |-> "string", vkind |-> "none", value |-> s, ckind |-> "none",
   content |-> <<>>]

RECURSIVE JsonStringifyNode(_)
RECURSIVE JsonStringifyNodes(_, _)
JsonStringifyNode(n) ==
  LET v == CASE n.vkind = "string" -> ValueKey \o JsonQuote(n.value)
             [] n.vkind = "number" -> ValueKey \o n.value
             [] OTHER -> <<>>
      c == CASE n.ckind = "array" ->
                  ContentKey \o <<"[">> \o JsonStringifyNodes(n.content, 1)
                  \o <<"]">>
             [] n.ckind = "string" -> ContentKey \o JsonQuote(n.content)
             [] OTHER -> <<>>
      sep == IF n.vkind # "none" /\ n.ckind # "none" THEN <<",">> ELSE <<>>
  IN CASE n.kind = "null" -> <<"n", "u", "l", "l">>
       [] n.kind = "string" -> JsonQuote(n.value)
       [] OTHER -> <<"{">> \o v \o sep \o c \o <<"}">>

JsonStringifyNodes(kids, i) ==
  IF i > Len(kids) THEN <<>>
  ELSE (IF i > 1 THEN <<",">> ELSE <<>>)
       \o JsonStringifyNode(kids[i]) \o JsonStringifyNodes(kids, i + 1)

----------------------------------------------------------------------------
(* Field values                                                            *)

EmptyNode == Node("none", <<>>, "none", <<>>)

\* A field value as JavaScript sees it: undefined (no such key), null, a
\* string, or an object (a rich-text document, its root node in `node`).
Undefined == [kind |-> "undefined", str |-> <<>>, node |-> EmptyNode]

Null == [kind |-> "null", str |-> <<>>, node |-> EmptyNode]

Str(s) == [kind |-> "string", str |-> s, node |-> EmptyNode]

Doc(n) == [kind |-> "object", str |-> <<>>, node |-> n]

\* `!!content`: undefined, null and "" are falsy; any object is truthy.
IsTruthy(v) == v.kind = "object" \/ (v.kind = "string" /\ v.str # <<>>)

\* JSON.stringify of a field value that is a key's value in an object.
JsonStringify(v) ==
  CASE v.kind = "string" -> JsonQuote(v.str)
    [] v.kind = "object" -> JsonStringifyNode(v.node)
    [] OTHER -> <<"n", "u", "l", "l">>

----------------------------------------------------------------------------
(* Size primitives, text extraction, overhead analysis                     *)

getByteSize(content) ==
  IF ~IsTruthy(content) THEN 0
  ELSE IF content.kind = "string" THEN ByteLength(content.str)
  ELSE IF content.kind = "object" THEN ByteLength(JsonStringify(content))
  ELSE 0

getCharacterCount(content) ==
  IF ~IsTruthy(content) THEN 0
  ELSE IF content.kind = "string" THEN Len(content.str)
  ELSE IF content.kind = "object" THEN Len(JsonStringify(content))
  ELSE 0

\* `node.value` is truthy: a non-empty string, or a number other than 0.
HasTruthyValue(node) ==
  \/ node.vkind = "string" /\ node.value # <<>>
  \/ node.vkind = "number" /\ node.value # <<"0">>

\* traverse(node): the text appended to plainText by the visit of `node`
\* when the visit raises nothing.  `plainText += node.value` appends a
\* number by its digits; a string in the place of a node has no `value` and
\* no `content` property.
RECURSIVE traverse(_)
RECURSIVE traverseEach(_, _)

\* Mutation: the children visited before the node's own value is appended.
traverseChildrenFirst(node) ==
  IF node.kind # "object" THEN <<>>
  ELSE (IF node.ckind = "array" THEN traverseEach(node.content, 1) ELSE <<>>)
       \o (IF HasTruthyValue(node) THEN node.value ELSE <<>>)

traverse(node) ==
  IF node.kind # "object" THEN <<>>
  ELSE (IF HasTruthyValue(node) THEN node.value ELSE <<>>)
       \o (IF node.ckind = "array" THEN traverseEach(node.content, 1)
           ELSE <<>>)

traverseEach(kids, i) ==
  IF i > Len(kids) THEN <<>>
  ELSE traverse(kids[i]) \o traverseEach(kids, i + 1)

\* traverse(node) raises a TypeError: `node.value` is read of null, here or
\* in the visit of a child.
RECURSIVE traverseThrows(_)
traverseThrows(node) ==
  \/ node.kind = "null"
  \/ /\ node.kind = "object"
     /\ node.ckind = "array"
     /\ \E i \in 1..Len(node.content) : traverseThrows(node.content[i])

extractPlainTextFromRichText(richTextContent) ==
  IF ~IsTruthy(richTextContent) \/ richTextContent.kind # "object" THEN <<>>
  ELSE traverse(richTextContent.node)

\* extractPlainTextFromRichText(richTextContent) raises instead of returning.
extractPlainTextFromRichTextThrows(richTextContent) ==
  /\ IsTruthy(richTextContent)
  /\ richTextContent.kind = "object"
  /\ traverseThrows(richTextContent.node)

\* Number.prototype.toFixed(1) of num / den * 100, in tenths of a percent
\* (round half away from zero); den > 0.
PercentTenths(num, den) ==
  IF num >= 0 THEN (2000 * num + den) \div (2 * den)
  ELSE -((2000 * (-num) + den) \div (2 * den))

\* What a percentage printed with toFixed(1) is: a number of tenths, or the
\* text "NaN" or "Infinity" that toFixed gives for 0 / 0 and for x / 0.
Fixed(tenths) == [kind |-> "finite", tenths |-> tenths]

NaN == [kind |-> "NaN", tenths |-> 0]

Infinity == [kind |-> "Infinity", tenths |-> 0]

\* ((num / den) * 100).toFixed(1) for num >= 0 and den >= 0, with no test of
\* the divisor.
PercentToFixed1(num, den) ==
  IF den = 0 THEN (IF num = 0 THEN NaN ELSE Infinity)
  ELSE Fixed(PercentTenths(num, den))

ZeroOverhead ==
  [totalSize |-> 0, contentSize |-> 0, overheadSize |-> 0,
   overheadPercentage |-> 0]

\* Mutation: the content size measured in characters where the overhead is
\* taken.
RichTextOverheadByCharacters(content) ==
  [totalSize |-> ByteLength(JsonStringify(content)),
   contentSize |-> ByteLength(extractPlainTextFromRichText(content)),
   overheadSize |-> ByteLength(JsonStringify(content))
                      - Len(extractPlainTextFromRichText(content)),
   overheadPercentage |-> 0]

\* Mutation: the operands of the subtraction exchanged.
RichTextOverheadSwapped(content) ==
  [totalSize |-> ByteLength(JsonStringify(content)),
   contentSize |-> ByteLength(extractPlainTextFromRichText(content)),
   overheadSize |-> ByteLength(extractPlainTextFromRichText(content))
                      - ByteLength(JsonStringify(content)),
   overheadPercentage |-> 0]

\* The record of lines 115-124, from totalSize and contentSize.
OverheadOf(totalSize, contentSize) ==
  [totalSize |-> totalSize, contentSize |-> contentSize,
   overheadSize |-> totalSize - contentSize,
   overheadPercentage |->
     IF totalSize > 0
     THEN PercentTenths(totalSize - contentSize, totalSize) ELSE 0]

\* The rich-text branch of analyzeContentOverhead.
RichTextOverhead(content) ==
  OverheadOf(ByteLength(JsonStringify(content)),
             ByteLength(extractPlainTextFromRichText(content)))

\* The string branch of analyzeContentOverhead.
PlainTextOverhead(content) ==
  LET size == ByteLength(content.str)
  IN [totalSize |-> size, contentSize |-> size, overheadSize |-> 0,
      overheadPercentage |-> 0]

analyzeContentOverhead(content) ==
  IF ~IsTruthy(content) THEN ZeroOverhead
  ELSE IF content.kind = "string" THEN PlainTextOverhead(content)
  ELSE IF content.kind = "object" THEN RichTextOverhead(content)
  ELSE ZeroOverhead

\* analyzeContentOverhead(content) raises: only its rich-text branch calls
\* the extractor (line 112).
analyzeContentOverheadThrows(content) ==
  /\ IsTruthy(content)
  /\ content.kind = "object"
  /\ extractPlainTextFromRichTextThrows(content)

----------------------------------------------------------------------------
(* The modelled inputs: strings and rich-text documents                    *)

\* All strings over TextUnits of length at most n.
RECURSIVE StringsUpTo(_)
StringsUpTo(n) ==
  IF n = 0 THEN {<<>>}
  ELSE LET shorter == StringsUpTo(n - 1)
       IN shorter \cup {Append(s, c) : s \in shorter, c \in TextUnits}

\* What a node may hold as `value`: nothing, "", "a", or one surrogate code
\* unit.  A lone surrogate is 3 bytes of text and 6 bytes of JSON; a high and
\* a low one of two nodes that meet in the extracted text are 4 bytes there.
NodeValueOptions ==
  {[vkind |-> "none", value |-> <<>>]}
  \cup {[vkind |-> "string", value |-> s] :
          s \in {<<>>, <<"a">>, <<"HI">>, <<"LO">>}}

\* The documents of exactly n nodes, and the child sequences of n nodes in all.
RECURSIVE TreesOfSize(_)
RECURSIVE ForestsOfSize(_)
TreesOfSize(n) ==
  IF n = 0 THEN {}
  ELSE {Node(o.vkind, o.value, "array", f) :
          o \in NodeValueOptions, f \in ForestsOfSize(n - 1)}
       \cup (IF n = 1
             THEN {Node(o.vkind, o.value, "none", <<>>) : o \in NodeValueOptions}
             ELSE {})

ForestsOfSize(m) ==
  IF m = 0 THEN {<<>>}
  ELSE UNION {{<<t>> \o f : t \in TreesOfSize(j), f \in ForestsOfSize(m - j)} :
                j \in 1..m}

RichDocuments == UNION {TreesOfSize(n) : n \in 1..MaxNodes}

\* Objects that parse as JSON but are not rich-text documents:
\*   {"content":[null]}, {"value":"a","content":[{"value":"a"},null]},
\*   {"content":[{"content":[null]}]}, {"content":["a"]}, {"content":"a"},
\*   {"value":5}, {"value":0}, {"value":5,"content":[{"value":"a"}]}
MalformedDocuments ==
  LET leaf == Node("string", <<"a">>, "none", <<>>)
  IN {Node("none", <<>>, "array", <<NullChild>>),
      Node("string", <<"a">>, "array", <<leaf, NullChild>>),
      Node("none", <<>>, "array", <<Node("none", <<>>, "array", <<NullChild>>)>>),
      Node("none", <<>>, "array", <<StringChild(<<"a">>)>>),
      Node("none", <<>>, "string", <<"a">>),
      Node("number", <<"5">>, "none", <<>>),
      Node("number", <<"0">>, "none", <<>>),
      Node("number", <<"5">>, "array", <<leaf>>)}

\* Every value one locale of the analysed field is given.
FieldValues ==
  {Undefined, Null}
  \cup {Str(s) : s \in StringsUpTo(MaxTextLen)}
  \cup {Doc(n) : n \in RichDocuments}

----------------------------------------------------------------------------
(* Locales, their order, the entry                                         *)

\* The locale codes of the model: "de", "EN", "en", "es".
LocaleCodes == {<<"d", "e">>, <<"E", "N">>, <<"e", "n">>, <<"e", "s">>}

Locale(code) == [code |-> code, name |-> <<"L">> \o code]

IsUpperCase(c) == c \in {"E", "N"}

ToLowerCase(c) ==
  CASE c = "E" -> "e"
    [] c = "N" -> "n"
    [] OTHER -> c

\* The first index at which s and t differ (they have the same length and
\* differ somewhere).
RECURSIVE FirstDifference(_, _, _)
FirstDifference(s, t, i) ==
  IF s[i] # t[i] THEN i ELSE FirstDifference(s, t, i + 1)

\* String.prototype.localeCompare on strings of letters, as the ICU collation
\* of the runtime computes it: the letters decide, whatever their case
\* (primary strength); between strings with the same letters the first case
\* difference decides, lower case first (tertiary strength).
localeCompare(s, t) ==
  LET ls == [i \in 1..Len(s) |-> ToLowerCase(s[i])]
      lt == [i \in 1..Len(t) |-> ToLowerCase(t[i])]
      primary == CodeUnitCompare(ls, lt)
  IN IF primary # 0 THEN primary
     ELSE IF s = t THEN 0
     ELSE IF IsUpperCase(s[FirstDifference(s, t, 1)]) THEN 1 ELSE -1

\* Mutation: the comparator with its operands exchanged.
CompareLocalesReversed(a, b) == localeCompare(b.code, a.code)

\* The comparator of line 268: (a, b) => a.code.localeCompare(b.code)
CompareLocales(a, b) == localeCompare(a.code, b.code)

\* Array.prototype.sort is stable: an element is placed before the first
\* element of the sorted prefix that the comparator puts after it.
RECURSIVE InsertionPoint(_, _, _)
InsertionPoint(sorted, x, i) ==
  IF i > Len(sorted) THEN i
  ELSE IF CompareLocales(sorted[i], x) > 0 THEN i
  ELSE InsertionPoint(sorted, x, i + 1)

RECURSIVE SortPrefix(_, _)
SortPrefix(arr, n) ==
  IF n = 0 THEN <<>>
  ELSE LET sorted == SortPrefix(arr, n - 1)
           k == InsertionPoint(sorted, arr[n], 1)
       IN SubSeq(sorted, 1, k - 1) \o <<arr[n]>> \o SubSeq(sorted, k, Len(sorted))

\* Mutation: the list used as it was supplied.
SortLocalesOmitted(arr) == arr

\* locales.sort((a, b) => a.code.localeCompare(b.code))
SortLocalesByCode(arr) == SortPrefix(arr, Len(arr))

\* The field ids of the model: "body", "content", "title".
BodyId == <<"b", "o", "d", "y">>

ContentId == <<"c", "o", "n", "t", "e", "n", "t">>

TitleId == <<"t", "i", "t", "l", "e">>

FieldIdPool == {BodyId, ContentId, TitleId}

\* A property every object inherits from Object.prototype.
ConstructorId == <<"c", "o", "n", "s", "t", "r", "u", "c", "t", "o", "r">>

ObjectPrototypeProperties == {ConstructorId}

\* A field's locale map with no locale set.
NoLocales == [c \in LocaleCodes |-> Undefined]

\* JSON.stringify of one field (its locale map): the keys that are set.
RECURSIVE JsonStringifyMembers(_, _, _)
JsonStringifyMembers(map, codes, first) ==
  IF codes = {} THEN <<>>
  ELSE LET c == CHOOSE x \in codes : \A y \in codes : CodeUnitCompare(x, y) <= 0
       IN IF map[c].kind = "undefined"
          THEN JsonStringifyMembers(map, codes \ {c}, first)
          ELSE (IF first THEN <<>> ELSE <<",">>)
               \o JsonQuote(c) \o <<":">> \o JsonStringify(map[c])
               \o JsonStringifyMembers(map, codes \ {c}, FALSE)

JsonStringifyField(map) ==
  <<"{">> \o JsonStringifyMembers(map, LocaleCodes, TRUE) \o <<"}">>

\* JSON.stringify of entry.fields: every field, in key order.
RECURSIVE JsonStringifyFieldsFrom(_, _)
JsonStringifyFieldsFrom(fields, i) ==
  IF i > Len(fields) THEN <<>>
  ELSE (IF i > 1 THEN <<",">> ELSE <<>>)
       \o JsonQuote(fields[i].id) \o <<":">> \o JsonStringifyField(fields[i].locales)
       \o JsonStringifyFieldsFrom(fields, i + 1)

JsonStringifyFields(fields) ==
  <<"{">> \o JsonStringifyFieldsFrom(fields, 1) \o <<"}">>

\* Bytes of JSON.stringify(entry): {"sys":<sys>,"fields":<fields>}, where the
\* serialized system metadata is opaque and sysBytes long.
EntryJsonBytes(e) ==
  ByteLength(<<"{", "\"", "s", "y", "s", "\"", ":">>) + e.sysBytes
  + ByteLength(<<",", "\"", "f", "i", "e", "l", "d", "s", "\"", ":">>)
  + ByteLength(JsonStringifyFields(e.fields)) + ByteLength(<<"}">>)

\* entry.fields[contentFieldId]: the own property when the entry has the
\* field; otherwise what the prototype chain gives (a function of
\* Object.prototype, which holds no locale) or undefined.
LookupField(fields, id) ==
  IF \E i \in 1..Len(fields) : fields[i].id = id
  THEN [kind |-> "own",
        locales |-> fields[CHOOSE i \in 1..Len(fields) : fields[i].id = id].locales]
  ELSE IF id \in ObjectPrototypeProperties
  THEN [kind |-> "inherited", locales |-> NoLocales]
  ELSE [kind |-> "undefined", locales |-> NoLocales]

----------------------------------------------------------------------------
(* The steps of analyzeEntryContentSizes                                   *)

\* The record pushed to `results` for one locale (the formatted strings,
\* which only the console output uses, are left out).
LocaleResult(locale, field) ==
  LET content == field[locale.code]
  IN [localeCode |-> locale.code,
      localeName |-> locale.name,
      sizeInBytes |-> getByteSize(content),
      characterCount |-> getCharacterCount(content),
      overheadAnalysis |-> analyzeContentOverhead(content),
      hasContent |-> IsTruthy(content)]

twoMBInBytes == 2 * 1024 * 1024

\* Mutation: the 60% test made before the 80% test.
UsageBandCautionFirst(size) ==
  IF 10 * size > 6 * twoMBInBytes THEN "caution"
  ELSE IF 10 * size > 8 * twoMBInBytes THEN "warning"
  ELSE "safe"

\* Mutation: the warning threshold at 90% of the limit.
UsageBandWarningAtNinety(size) ==
  IF 10 * size > 9 * twoMBInBytes THEN "warning"
  ELSE IF 10 * size > 6 * twoMBInBytes THEN "caution"
  ELSE "safe"

\* The if / else if / else of lines 365-377.  twoMBInBytes * 0.8 and
\* twoMBInBytes * 0.6 are the doubles nearest 1677721.6 and 1258291.2; no
\* integer lies between either and the exact product, so comparing an
\* integer size with them is comparing 10 * size with 8 (6) * twoMBInBytes.
UsageBand(size) ==
  IF 10 * size > 8 * twoMBInBytes THEN "warning"
  ELSE IF 10 * size > 6 * twoMBInBytes THEN "caution"
  ELSE "safe"

\* ((totalEntrySize / twoMBInBytes) * 100).toFixed(2), in hundredths of a
\* percent: 10000 / 2^21 = 625 / 2^17.
UsagePercentage(size) == (625 * size + 65536) \div 131072

\* Mutation: the overall percentage computed without the test of totalSize.
OverallOverheadUnguarded(overheadSize, size) ==
  PercentToFixed1(overheadSize, size)

\* Lines 347-348:
\*   totalSize > 0 ? ((totalOverheadSize / totalSize) * 100).toFixed(1) : 0
OverallOverhead(overheadSize, size) ==
  IF size > 0 THEN PercentToFixed1(overheadSize, size) ELSE Fixed(0)

\* One row of the field breakdown.
FieldRow(f, entrySize) ==
  LET size == ByteLength(JsonStringifyField(f.locales))
  IN [fieldId |-> f.id, size |-> size,
      percentage |-> PercentToFixed1(size, entrySize)]

\* Mutation: smallest first.
CompareFieldSizesAscending(a, b) == a.size - b.size

\* The comparator of line 407: ([, a], [, b]) => b - a
CompareFieldSizes(a, b) == b.size - a.size

RECURSIVE FieldInsertionPoint(_, _, _)
FieldInsertionPoint(sorted, x, i) ==
  IF i > Len(sorted) THEN i
  ELSE IF CompareFieldSizes(sorted[i], x) > 0 THEN i
  ELSE FieldInsertionPoint(sorted, x, i + 1)

RECURSIVE SortFieldPrefix(_, _)
SortFieldPrefix(arr, n) ==
  IF n = 0 THEN <<>>
  ELSE LET sorted == SortFieldPrefix(arr, n - 1)
           k == FieldInsertionPoint(sorted, arr[n], 1)
       IN SubSeq(sorted, 1, k - 1) \o <<arr[n]>> \o SubSeq(sorted, k, Len(sorted))

\* Object.entries(fieldSizes).sort(...): the rows in the key order of
\* entry.fields, sorted (stably) by size, largest first.
SortFieldsBySize(fields, entrySize) ==
  SortFieldPrefix([i \in 1..Len(fields) |-> FieldRow(fields[i], entrySize)],
                  Len(fields))

\* results.filter((r) => r.hasContent)
RECURSIVE FilterWithContent(_, _)
FilterWithContent(rs, i) ==
  IF i > Len(rs) THEN <<>>
  ELSE (IF rs[i].hasContent THEN <<rs[i]>> ELSE <<>>)
       \o FilterWithContent(rs, i + 1)

\* Mutation: >= for >, so that the last of several largest locales wins.
RECURSIVE ReduceLargestLastWins(_, _, _)
ReduceLargestLastWins(rs, max, i) ==
  IF i > Len(rs) THEN max
  ELSE ReduceLargestLastWins(rs,
         IF rs[i].sizeInBytes >= max.sizeInBytes THEN rs[i] ELSE max, i + 1)

\* withContent.reduce((max, current) =>
\*   current.sizeInBytes > max.sizeInBytes ? current : max)
RECURSIVE ReduceLargest(_, _, _)
ReduceLargest(rs, max, i) ==
  IF i > Len(rs) THEN max
  ELSE ReduceLargest(rs,
         IF rs[i].sizeInBytes > max.sizeInBytes THEN rs[i] ELSE max, i + 1)

RECURSIVE ReduceSmallest(_, _, _)
ReduceSmallest(rs, min, i) ==
  IF i > Len(rs) THEN min
  ELSE ReduceSmallest(rs,
         IF rs[i].sizeInBytes < min.sizeInBytes THEN rs[i] ELSE min, i + 1)

----------------------------------------------------------------------------
(* State                                                                   *)

VARIABLES
  pc,                 \* the position in analyzeEntryContentSizes
  suppliedLocales,    \* localesCollection.items as getLocales returned it
  locales,            \* the `locales` array (sort works in place)
  entry,              \* the entry getEntry returned
  contentFieldId,     \* CONTENTFUL_CONTENT_FIELD_ID || "content"
  contentField,       \* entry.fields[contentFieldId]
  index,              \* the position of sortedLocales.forEach
  results,
  totalSize,
  totalCharacters,
  totalContentSize,
  totalOverheadSize,
  localesWithContent,
  totalEntrySize,
  entryUsagePercentage,
  overallOverheadPercentage,
  band,               \* the line printed under CONTENTFUL LIMITS
  sortedFields,
  largest,            \* <<r>> when "Largest content" is printed, else <<>>
  smallest,
  exitCode            \* -1 while running, 0 normal end, 1 process.exit(1)

vars ==
  <<pc, suppliedLocales, locales, entry, contentFieldId, contentField, index,
    results, totalSize, totalCharacters, totalContentSize, totalOverheadSize,
    localesWithContent, totalEntrySize, entryUsagePercentage,
    overallOverheadPercentage, band, sortedFields, largest, smallest, exitCode>>

inputs == <<suppliedLocales, entry, contentFieldId>>

perLocale ==
  <<results, totalSize, totalCharacters, totalContentSize, totalOverheadSize,
    localesWithContent>>

summary ==
  <<totalEntrySize, entryUsagePercentage, overallOverheadPercentage, band>>

----------------------------------------------------------------------------
(* The inputs a run is given                                               *)

\* Every list of at most n locales with distinct codes, in every order.
RECURSIVE LocaleListsUpTo(_)
LocaleListsUpTo(n) ==
  IF n = 0 THEN {<<>>}
  ELSE LET shorter == LocaleListsUpTo(n - 1)
       IN shorter
          \cup {Append(l, Locale(c)) :
                  l \in shorter, c \in LocaleCodes}

HasDistinctCodes(l) ==
  \A i, j \in 1..Len(l) : i # j => l[i].code # l[j].code

LocaleLists == {l \in LocaleListsUpTo(MaxLocales) : HasDistinctCodes(l)}

EnOnly == <<Locale(<<"e", "n">>)>>

\* A few values of different kinds and sizes (0, 0, 2 and 13 bytes).
SmallValues ==
  {Undefined, Str(<<>>), Str(<<"U00E9">>),
   Doc(Node("string", <<"a">>, "none", <<>>))}

\* The locale maps that give a value to the codes of `codes` only.
LocaleMaps(codes, values) ==
  {[c \in LocaleCodes |-> IF c \in codes THEN m[c] ELSE Undefined] :
     m \in [codes -> values]}

OneField(id, map) == [id |-> id, locales |-> map]

EnMap(v) == [c \in LocaleCodes |-> IF c = <<"e", "n">> THEN v ELSE Undefined]

\* The size of the serialized system metadata when nothing is said of it.
SmallSysBytes == 2

\* Every sequence of at most n fields with distinct ids, each holding a
\* string of 1 or 2 bytes for "en".
RECURSIVE FieldListsUpTo(_)
FieldListsUpTo(n) ==
  IF n = 0 THEN {<<>>}
  ELSE LET shorter == FieldListsUpTo(n - 1)
       IN shorter
          \cup {Append(l, OneField(id, EnMap(v))) :
                  l \in shorter, id \in FieldIdPool,
                  v \in {Str(<<"a">>), Str(<<"U00E9">>)}}

HasDistinctIds(l) ==
  \A i, j \in 1..Len(l) : i # j => l[i].id # l[j].id

FieldLists == {l \in FieldListsUpTo(MaxFields) : HasDistinctIds(l)}

\* Total entry sizes around the two thresholds, and the sizes the
\* documentation names.
SampleEntrySizes ==
  {1000000, 1800000, 1900000, 2097152, 2097153}
  \cup {(6 * twoMBInBytes) \div 10 + d : d \in -2..2}
  \cup {(8 * twoMBInBytes) \div 10 + d : d \in -2..2}

Run(ls, e, id) == [locales |-> ls, entry |-> e, contentFieldId |-> id]

\* One locale, one field, every value of the field.
ValueRuns ==
  {Run(EnOnly,
       [sysBytes |-> SmallSysBytes, fields |-> <<OneField(ContentId, EnMap(v))>>],
       ContentId) : v \in FieldValues}

\* Every locale list, with every assignment of small values to its locales.
LocaleRuns ==
  UNION {{Run(l,
              [sysBytes |-> SmallSysBytes, fields |-> <<OneField(ContentId, m)>>],
              ContentId) :
            m \in LocaleMaps({l[i].code : i \in 1..Len(l)}, SmallValues)} :
         l \in LocaleLists}

\* Every field list, with every configured field id.
FieldRuns ==
  {Run(EnOnly, [sysBytes |-> SmallSysBytes, fields |-> fs], id) :
     fs \in FieldLists, id \in FieldIdPool \cup ObjectPrototypeProperties}

\* Entries whose serialization has one of the sample sizes.
SizeRuns ==
  LET fs == <<OneField(ContentId, EnMap(Str(<<"a">>)))>>
      rest == EntryJsonBytes([sysBytes |-> 0, fields |-> fs])
  IN {Run(EnOnly, [sysBytes |-> size - rest, fields |-> fs], ContentId) :
        size \in SampleEntrySizes}

\* The analysed field holds a string for "de" and an object that is not a
\* rich-text document for "en", with the locales supplied in either order.
MalformedRuns ==
  LET de == <<"d", "e">>
      en == <<"e", "n">>
  IN {Run(ls,
          [sysBytes |-> SmallSysBytes,
           fields |-> <<OneField(ContentId,
                                 [c \in LocaleCodes |->
                                    IF c = de THEN Str(<<"a">>)
                                    ELSE IF c = en THEN Doc(m)
                                    ELSE Undefined])>>],
          ContentId) :
        ls \in {<<Locale(de), Locale(en)>>, <<Locale(en), Locale(de)>>,
                 <<Locale(en)>>},
        m \in MalformedDocuments}

Runs ==
  ValueRuns \cup LocaleRuns \cup FieldRuns \cup SizeRuns \cup MalformedRuns

----------------------------------------------------------------------------
(* Initial state and actions                                               *)

Init ==
  /\ \E r \in Runs :
       /\ suppliedLocales = r.locales
       /\ locales = r.locales
       /\ entry = r.entry
       /\ contentFieldId = r.contentFieldId
  /\ pc = "lookup"
  /\ contentField = NoLocales
  /\ index = 0
  /\ results = <<>>
  /\ totalSize = 0
  /\ totalCharacters = 0
  /\ totalContentSize = 0
  /\ totalOverheadSize = 0
  /\ localesWithContent = 0
  /\ totalEntrySize = 0
  /\ entryUsagePercentage = 0
  /\ overallOverheadPercentage = Fixed(0)
  /\ band = "none"
  /\ sortedFields = <<>>
  /\ largest = <<>>
  /\ smallest = <<>>
  /\ exitCode = -1

\* Lines 223-230, `!contentField`: the error message and process.exit(1).
FieldNotFound ==
  /\ pc = "lookup"
  /\ LookupField(entry.fields, contentFieldId).kind = "undefined"
  /\ pc' = "exited"
  /\ exitCode' = 1
  /\ UNCHANGED <<inputs, locales, contentField, index, perLocale, summary,
                 sortedFields, largest, smallest>>

\* Lines 223-257, contentField is truthy: the run goes on.
FieldFound ==
  /\ pc = "lookup"
  /\ LookupField(entry.fields, contentFieldId).kind # "undefined"
  /\ contentField' = LookupField(entry.fields, contentFieldId).locales
  /\ pc' = "sort"
  /\ UNCHANGED <<inputs, locales, index, perLocale, summary, sortedFields,
                 largest, smallest, exitCode>>

\* Lines 260-268: the totals start at 0 and `locales` is sorted in place
\* (sortedLocales is the same array).
SortLocales ==
  /\ pc = "sort"
  /\ locales' = SortLocalesByCode(locales)
  /\ results' = <<>>
  /\ totalSize' = 0
  /\ totalCharacters' = 0
  /\ totalContentSize' = 0
  /\ totalOverheadSize' = 0
  /\ localesWithContent' = 0
  /\ index' = 1
  /\ pc' = "forEach"
  /\ UNCHANGED <<inputs, contentField, summary, sortedFields, largest,
                 smallest, exitCode>>

\* Mutation: the count of locales with content incremented outside the
\* `if (content)`.
AnalyzeLocaleCountsEvery ==
  /\ pc = "forEach"
  /\ index <= Len(locales)
  /\ ~analyzeContentOverheadThrows(contentField[locales[index].code])
  /\ \E r \in {LocaleResult(locales[index], contentField)} :
        /\ results' = Append(results, r)
        /\ totalSize' = totalSize + r.sizeInBytes
        /\ totalCharacters' = totalCharacters + r.characterCount
        /\ totalContentSize' = totalContentSize + r.overheadAnalysis.contentSize
        /\ totalOverheadSize' = totalOverheadSize + r.overheadAnalysis.overheadSize
        /\ localesWithContent' = localesWithContent + 1
  /\ index' = index + 1
  /\ UNCHANGED <<pc, inputs, locales, contentField, summary, sortedFields,
                 largest, smallest, exitCode>>

\* Lines 270-276 and 439-448: the extractor raises in the callback's call of
\* analyzeContentOverhead, before anything is pushed or added; the catch
\* block prints the error and calls process.exit(1).
AnalyzeLocaleThrows ==
  /\ pc = "forEach"
  /\ index <= Len(locales)
  /\ analyzeContentOverheadThrows(contentField[locales[index].code])
  /\ pc' = "caught"
  /\ exitCode' = 1
  /\ UNCHANGED <<inputs, locales, contentField, index, perLocale, summary,
                 sortedFields, largest, smallest>>

\* Lines 270-312: one call of the forEach callback.
AnalyzeLocale ==
  /\ pc = "forEach"
  /\ index <= Len(locales)
  /\ ~analyzeContentOverheadThrows(contentField[locales[index].code])
  /\ \E r \in {LocaleResult(locales[index], contentField)} :
     LET content == contentField[locales[index].code]
     IN /\ results' = Append(results, r)
        /\ IF IsTruthy(content)
           THEN /\ totalSize' = totalSize + r.sizeInBytes
                /\ totalCharacters' = totalCharacters + r.characterCount
                /\ totalContentSize' = totalContentSize + r.overheadAnalysis.contentSize
                /\ totalOverheadSize' = totalOverheadSize + r.overheadAnalysis.overheadSize
                /\ localesWithContent' = localesWithContent + 1
           ELSE UNCHANGED <<totalSize, totalCharacters, totalContentSize,
                            totalOverheadSize, localesWithContent>>
  /\ index' = index + 1
  /\ UNCHANGED <<pc, inputs, locales, contentField, summary, sortedFields,
                 largest, smallest, exitCode>>

\* Lines 314-389: the entry's size, its share of the limit, the overall
\* overhead and the band.
Summarize ==
  /\ pc = "forEach"
  /\ index > Len(locales)
  /\ \E size \in {EntryJsonBytes(entry)} :
        /\ totalEntrySize' = size
        /\ entryUsagePercentage' = UsagePercentage(size)
        /\ band' = UsageBand(size)
  /\ overallOverheadPercentage' = OverallOverhead(totalOverheadSize, totalSize)
  /\ pc' = "fields"
  /\ UNCHANGED <<inputs, locales, contentField, index, perLocale, sortedFields,
                 largest, smallest, exitCode>>

\* Lines 391-417: the field breakdown.
FieldBreakdown ==
  /\ pc = "fields"
  /\ sortedFields' = SortFieldsBySize(entry.fields, totalEntrySize)
  /\ pc' = "extremes"
  /\ UNCHANGED <<inputs, locales, contentField, index, perLocale, summary,
                 largest, smallest, exitCode>>

\* Lines 419-438: the largest and the smallest content, and the normal end.
LargestSmallest ==
  /\ pc = "extremes"
  /\ LET withContent == FilterWithContent(results, 1)
     IN IF Len(withContent) > 0
        THEN /\ largest' = <<ReduceLargest(withContent, withContent[1], 2)>>
             /\ smallest' = <<ReduceSmallest(withContent, withContent[1], 2)>>
        ELSE UNCHANGED <<largest, smallest>>
  /\ pc' = "done"
  /\ exitCode' = 0
  /\ UNCHANGED <<inputs, locales, contentField, index, perLocale, summary,
                 sortedFields>>

Next ==
  \/ FieldNotFound
  \/ FieldFound
  \/ SortLocales
  \/ AnalyzeLocaleThrows
  \/ AnalyzeLocale
  \/ Summarize
  \/ FieldBreakdown
  \/ LargestSmallest

Spec == Init /\ [][Next]_vars

----------------------------------------------------------------------------
(* Properties                                                              *)

\* The raw value the record results[i] was computed from.
RawValue(i) == contentField[results[i].localeCode]

\* C1: for every analysed value, a rich-text document has
\* totalSize = contentSize + overheadSize, and a plain string has
\* contentSize = totalSize, overheadSize = 0 and overheadPercentage = 0.
C1_OverheadSplit ==
  \A i \in 1..Len(results) :
    LET o == results[i].overheadAnalysis
    IN /\ RawValue(i).kind = "object" =>
            o.totalSize = o.contentSize + o.overheadSize
       /\ RawValue(i).kind = "string" =>
            /\ o.contentSize = o.totalSize
            /\ o.totalSize = ByteLength(RawValue(i).str)
            /\ o.overheadSize = 0
            /\ o.overheadPercentage = 0

\* A document with text and markup and a string with a multi-byte
\* character have both been analysed.
C1_Witness ==
  /\ \E i \in 1..Len(results) :
       /\ RawValue(i).kind = "object"
       /\ results[i].overheadAnalysis.contentSize > 0
       /\ results[i].overheadAnalysis.overheadSize > 0
  /\ \E j \in 1..Len(results) :
       /\ RawValue(j).kind = "string"
       /\ results[j].overheadAnalysis.totalSize > Len(RawValue(j).str)

\* C2: the overhead of a rich-text document is never negative: its JSON
\* serialization has at least as many bytes as the text extracted from it.
C2_OverheadNotNegative ==
  \A i \in 1..Len(results) :
    RawValue(i).kind = "object" =>
      /\ results[i].overheadAnalysis.overheadSize >= 0
      /\ results[i].overheadAnalysis.totalSize
           >= ByteLength(extractPlainTextFromRichText(RawValue(i)))

\* A document has been analysed whose first two children hold a high and a
\* low surrogate: 4 bytes in the extracted text, 12 in the serialization.
C2_Witness ==
  \E i \in 1..Len(results) :
    /\ RawValue(i).kind = "object"
    /\ RawValue(i).node.ckind = "array"
    /\ Len(RawValue(i).node.content) >= 2
    /\ RawValue(i).node.content[1].value = <<"HI">>
    /\ RawValue(i).node.content[2].value = <<"LO">>
    /\ results[i].overheadAnalysis.contentSize = 4

\* The sum of amount[i] over the records rs[i] that have content.
RECURSIVE SumWithContent(_, _, _)
SumWithContent(rs, amount, i) ==
  IF i > Len(rs) THEN 0
  ELSE (IF rs[i].hasContent THEN amount[i] ELSE 0)
       + SumWithContent(rs, amount, i + 1)

\* C3: hasContent is true exactly for a raw value that is neither absent,
\* null nor the empty string, and the running totals are the sums over the
\* records with hasContent: the total size is the sum of their sizeInBytes
\* and localesWithContent is their number.
C3_TotalsOverContent ==
  /\ \A i \in 1..Len(results) :
       results[i].hasContent
         <=> ~(RawValue(i).kind \in {"undefined", "null"}
               \/ (RawValue(i).kind = "string" /\ RawValue(i).str = <<>>))
  /\ totalSize =
       SumWithContent(results,
         [i \in 1..Len(results) |-> results[i].sizeInBytes], 1)
  /\ totalCharacters =
       SumWithContent(results,
         [i \in 1..Len(results) |-> results[i].characterCount], 1)
  /\ totalContentSize =
       SumWithContent(results,
         [i \in 1..Len(results) |-> results[i].overheadAnalysis.contentSize], 1)
  /\ totalOverheadSize =
       SumWithContent(results,
         [i \in 1..Len(results) |-> results[i].overheadAnalysis.overheadSize], 1)
  /\ localesWithContent =
       SumWithContent(results, [i \in 1..Len(results) |-> 1], 1)

\* The pass is over a list with two locales that have content and one that
\* has none.
C3_Witness ==
  /\ pc = "done"
  /\ localesWithContent = 2
  /\ totalSize > 0
  /\ \E i \in 1..Len(results) : ~results[i].hasContent

limitBytes == 2097152

IsFieldOfEntry ==
  \E i \in 1..Len(entry.fields) : entry.fields[i].id = contentFieldId

\* C6: when the configured field id is not a key of the entry's field map,
\* the run ends with the error and exit status 1, and produces no per-locale
\* record, total or summary.
C6_MissingFieldIsAnError ==
  (~IsFieldOfEntry /\ pc # "lookup") =>
    /\ pc = "exited"
    /\ exitCode = 1
    /\ results = <<>>
    /\ localesWithContent = 0
    /\ band = "none"
    /\ sortedFields = <<>>

\* C7 as stated: the results are in ascending order of locale code by code
\* units.
C7_AsStated ==
  \A i, j \in 1..Len(results) :
    i < j => CodeUnitCompare(results[i].localeCode, results[j].localeCode) < 0

\* C7, amended: the results are in ascending order of locale code as
\* localeCompare orders the codes, one record per supplied locale.
C7_LocaleCompareOrder ==
  /\ \A i, j \in 1..Len(results) :
       i < j => localeCompare(results[i].localeCode, results[j].localeCode) <= 0
  /\ pc \in {"fields", "extremes", "done"} =>
       /\ Len(results) = Len(suppliedLocales)
       /\ {results[i].localeCode : i \in 1..Len(results)}
            = {suppliedLocales[i].code : i \in 1..Len(suppliedLocales)}

\* Three locales supplied out of order, two of them with codes that differ
\* in case only, have been analysed.
C7_Witness ==
  /\ pc = "done"
  /\ Len(results) = 3
  /\ suppliedLocales # locales
  /\ \E i \in 1..2 :
       /\ results[i].localeCode = <<"e", "n">>
       /\ results[i + 1].localeCode = <<"E", "N">>

\* All orders of the elements of a sequence.
RECURSIVE PermutationsOf(_)
PermutationsOf(l) ==
  IF l = <<>> THEN {<<>>}
  ELSE UNION {{<<l[i]>> \o p :
                 p \in PermutationsOf([k \in 1..(Len(l) - 1) |->
                                         IF k < i THEN l[k] ELSE l[k + 1]])} :
              i \in 1..Len(l)}

\* The totals of the records rs, computed from the raw values raw.
RECURSIVE TotalsOf(_, _, _)
TotalsOf(rs, raw, i) ==
  IF i > Len(rs)
  THEN [totalSize |-> 0, totalCharacters |-> 0, totalContentSize |-> 0,
        totalOverheadSize |-> 0, localesWithContent |-> 0]
  ELSE LET t == TotalsOf(rs, raw, i + 1)
       IN IF IsTruthy(raw[i])
          THEN [totalSize |-> t.totalSize + rs[i].sizeInBytes,
                totalCharacters |-> t.totalCharacters + rs[i].characterCount,
                totalContentSize |->
                  t.totalContentSize + rs[i].overheadAnalysis.contentSize,
                totalOverheadSize |->
                  t.totalOverheadSize + rs[i].overheadAnalysis.overheadSize,
                localesWithContent |-> t.localesWithContent + 1]
          ELSE t

\* The output of the run that is given the locale list ls with this entry
\* and field id (the field is found).
OutputOfSorted(rs, raw, withContent) ==
  [results |-> rs,
   totals |-> TotalsOf(rs, raw, 1),
   largest |-> IF Len(withContent) > 0
               THEN <<ReduceLargest(withContent, withContent[1], 2)>>
               ELSE <<>>,
   smallest |-> IF Len(withContent) > 0
                THEN <<ReduceSmallest(withContent, withContent[1], 2)>>
                ELSE <<>>]

OutputOfResults(rs, raw) == OutputOfSorted(rs, raw, FilterWithContent(rs, 1))

OutputOfLocales(sorted) ==
  OutputOfResults(
    [i \in 1..Len(sorted) |-> LocaleResult(sorted[i], contentField)],
    [i \in 1..Len(sorted) |-> contentField[sorted[i].code]])

OutputFor(ls) == OutputOfLocales(SortLocalesByCode(ls))

\* The output of the run in progress, once it is done.
Output ==
  [results |-> results,
   totals |-> [totalSize |-> totalSize, totalCharacters |-> totalCharacters,
               totalContentSize |-> totalContentSize,
               totalOverheadSize |-> totalOverheadSize,
               localesWithContent |-> localesWithContent],
   largest |-> largest,
   smallest |-> smallest]

\* C8: the output of a run is the output of the run on every permutation of
\* the supplied locale list: the same records in the same order, the same
\* totals, the same largest and smallest locale.
C8_OrderOfLocalesIrrelevant ==
  pc = "done" =>
    \A p \in PermutationsOf(suppliedLocales) : OutputFor(p) = Output

\* A run is done on three locales that were not supplied in sorted order,
\* two of them with content of different sizes.
C8_Witness ==
  /\ pc = "done"
  /\ Len(suppliedLocales) = 3
  /\ suppliedLocales # locales
  /\ largest # <<>>
  /\ largest # smallest

\* The position of field id `id` among the keys of entry.fields.
KeyPosition(id) == CHOOSE i \in 1..Len(entry.fields) : entry.fields[i].id = id

\* The breakdown has one row for each field of the entry, largest first.
BreakdownBySize ==
  /\ Len(sortedFields) = Len(entry.fields)
  /\ {sortedFields[i].fieldId : i \in 1..Len(sortedFields)}
       = {entry.fields[i].id : i \in 1..Len(entry.fields)}
  /\ \A i \in 1..Len(sortedFields) :
       sortedFields[i].size
         = ByteLength(JsonStringifyField(
                        entry.fields[KeyPosition(sortedFields[i].fieldId)].locales))
  /\ \A i, j \in 1..Len(sortedFields) :
       i < j => sortedFields[i].size >= sortedFields[j].size

\* C9 as stated: largest first, and fields of equal size in ascending order
\* of their ids.
C9_AsStated ==
  pc \in {"extremes", "done"} =>
    /\ BreakdownBySize
    /\ \A i, j \in 1..Len(sortedFields) :
         (i < j /\ sortedFields[i].size = sortedFields[j].size) =>
           CodeUnitCompare(sortedFields[i].fieldId, sortedFields[j].fieldId) < 0

\* C9, amended: largest first, and fields of equal size in the order of
\* their keys in the entry's field map.
C9_TiesInKeyOrder ==
  pc \in {"extremes", "done"} =>
    /\ BreakdownBySize
    /\ \A i, j \in 1..Len(sortedFields) :
         (i < j /\ sortedFields[i].size = sortedFields[j].size) =>
           KeyPosition(sortedFields[i].fieldId)
             < KeyPosition(sortedFields[j].fieldId)

\* Three fields have been ranked: the largest was not the first key, and the
\* two others have the same size and keys in descending order of id.
C9_Witness ==
  /\ pc = "done"
  /\ Len(sortedFields) = 3
  /\ KeyPosition(sortedFields[1].fieldId) > 1
  /\ sortedFields[1].size > sortedFields[2].size
  /\ sortedFields[2].size = sortedFields[3].size
  /\ CodeUnitCompare(sortedFields[2].fieldId, sortedFields[3].fieldId) > 0

\* The indices of the records with content.
WithContent == {i \in 1..Len(results) : results[i].hasContent}

\* C10: when some locale has content, the largest (smallest) locale is the
\* first record in order among those with content that have the maximum
\* (minimum) size; when none has, neither is reported; the run ends normally
\* in both cases.
C10_LargestAndSmallest ==
  pc = "done" =>
    /\ exitCode = 0
    /\ WithContent = {} => (largest = <<>> /\ smallest = <<>>)
    /\ WithContent # {} =>
         /\ \E i \in WithContent :
              /\ largest = <<results[i]>>
              /\ \A k \in WithContent :
                   /\ results[k].sizeInBytes <= results[i].sizeInBytes
                   /\ results[k].sizeInBytes = results[i].sizeInBytes => i <= k
         /\ \E i \in WithContent :
              /\ smallest = <<results[i]>>
              /\ \A k \in WithContent :
                   /\ results[k].sizeInBytes >= results[i].sizeInBytes
                   /\ results[k].sizeInBytes = results[i].sizeInBytes => i <= k

\* Two locales tie for the largest content, after a locale without content
\* and of size 0.
C10_Witness ==
  /\ pc = "done"
  /\ Len(results) = 3
  /\ ~results[1].hasContent
  /\ results[2].hasContent /\ results[3].hasContent
  /\ results[2].sizeInBytes = results[3].sizeInBytes
  /\ largest = <<results[2]>>
  /\ smallest = <<results[2]>>

\* The nodes of a tree in depth-first pre-order: a node, then the nodes of
\* each of its children in sequence order.
RECURSIVE PreOrder(_)
RECURSIVE PreOrderOfEach(_, _)
PreOrder(node) ==
  <<node>>
  \o (IF node.kind = "object" /\ node.ckind = "array"
      THEN PreOrderOfEach(node.content, 1) ELSE <<>>)

PreOrderOfEach(kids, i) ==
  IF i > Len(kids) THEN <<>>
  ELSE PreOrder(kids[i]) \o PreOrderOfEach(kids, i + 1)

\* The `value` strings of nodes[i..], one after the other.
RECURSIVE ValueStrings(_, _)
ValueStrings(nodes, i) ==
  IF i > Len(nodes) THEN <<>>
  ELSE (IF nodes[i].kind = "object" /\ nodes[i].vkind = "string"
        THEN nodes[i].value ELSE <<>>)
       \o ValueStrings(nodes, i + 1)

\* Every node is an object whose `value`, when it has one, is a string and
\* whose `content`, when it has one, is an array.
IsRichTextDocument(node) ==
  \A i \in 1..Len(PreOrder(node)) :
    LET n == PreOrder(node)[i]
    IN /\ n.kind = "object"
       /\ n.vkind \in {"none", "string"}
       /\ n.ckind \in {"none", "array"}

\* C11: the extractor is total: whatever the shape of the object it is
\* given, it returns without raising, and a node that is not a rich-text node
\* adds no text, so the text is that of the `value` strings alone.
C11_ExtractorIsTotal ==
  /\ pc # "caught"
  /\ \A i \in 1..Len(results) :
       RawValue(i).kind = "object" =>
         results[i].overheadAnalysis.contentSize
           = ByteLength(ValueStrings(PreOrder(RawValue(i).node), 1))

\* C12: the text extracted from a rich-text document is the concatenation of
\* the `value` strings of its nodes in depth-first pre-order and nothing
\* else; the content size of the document is the byte length of that text,
\* 0 when no node has a `value`.
C12_PreOrderConcatenation ==
  \A i \in 1..Len(results) :
    (RawValue(i).kind = "object" /\ IsRichTextDocument(RawValue(i).node)) =>
      LET nodes == PreOrder(RawValue(i).node)
      IN /\ extractPlainTextFromRichText(RawValue(i)) = ValueStrings(nodes, 1)
         /\ results[i].overheadAnalysis.contentSize
              = ByteLength(ValueStrings(nodes, 1))
         /\ (\A k \in 1..Len(nodes) : nodes[k].vkind = "none") =>
              results[i].overheadAnalysis.contentSize = 0

\* A document is analysed whose root has a value, whose first child is a
\* container with a grandchild of another value, and whose text is the
\* root's value followed by the grandchild's.
C12_Witness ==
  \E i \in 1..Len(results) :
    LET raw == RawValue(i)
    IN /\ raw.kind = "object"
       /\ IsRichTextDocument(raw.node)
       /\ raw.node.vkind = "string" /\ raw.node.value = <<"a">>
       /\ raw.node.ckind = "array" /\ Len(raw.node.content) = 1
       /\ raw.node.content[1].vkind = "none"
       /\ raw.node.content[1].ckind = "array"
       /\ Len(raw.node.content[1].content) = 1
       /\ raw.node.content[1].content[1].value = <<"HI">>
       /\ extractPlainTextFromRichText(raw) = <<"a", "HI">>
       /\ results[i].overheadAnalysis.contentSize = 4

\* The summary has been computed / the field breakdown has been computed.
Summarized == pc \in {"fields", "extremes", "done"}

BrokenDown == pc \in {"extremes", "done"}

C14_InputsUnchanged ==
  /\ [][entry' = entry]_vars
  /\ [](pc = "done" => locales = suppliedLocales)

====
